---- MODULE Spec2Model ----
(***************************************************************************)
(* Strided slices (huonw/strided-rs): the raw view core of base.rs, its    *)
(* element iterator and substride partitioner, and the shared / exclusive  *)
(* wrappers of imm.rs and mut_.rs.                                         *)
(*                                                                         *)
(* Addresses are byte addresses of a machine with words of WordBits bits;  *)
(* pointer and usize arithmetic is taken modulo Word.  A view is the       *)
(* triple (data, len, stride) of base::Stride, stride in bytes.            *)
(***************************************************************************)
EXTENDS Integers, Sequences, FiniteSets, TLC

\* ------------------------------------------------------------------ bounds
WordBits == 6
MaxLen == 4
MaxN == 3
MaxHandles == 4
MaxOps == 3

Word == 2 ^ WordBits

\* mem::size_of::<T>() of the element types the model runs with (u8, u16).
ElemSizes == {1, 2}

VARIABLES
    checked,   \* the build panics on usize overflow (debug) or wraps silently (release)
    es,        \* mem::size_of::<T>()
    base,      \* address of the buffer's first element
    mem,       \* the buffer's elements, mem[1] at address base
    other,     \* a copy of a view the program kept to compare against
    v,         \* the view the program currently holds
    call,      \* the last library call: operation, receiver, arguments, outcome
    it,        \* <<>> or <<i>>, i the live element iterator (Items / MutItems)
    itOf,      \* the view iter() was called on
    yielded,   \* addresses the live iterator has yielded, in order
    nfront,    \* how many of them next() yielded (the rest next_back())
    sub,       \* <<>> or <<p>>, p the live base::Substrides
    subOf,     \* the view and the n substrides(n) was called with
    produced,  \* views the live partitioner has produced, in order
    handles,   \* the exclusive handles (mut_::Stride, &mut T, iterators) of the program
    ops        \* how many calls the program has made on its exclusive handles

vars == <<checked, es, base, mem, other, v, call, it, itOf, yielded, nfront, sub, subOf, produced, handles, ops>>

\* ------------------------------------------------------------ raw view core

step(ptr, stride) == (ptr + stride) % Word

new_raw(data, len, byte_stride) ==
    [data |-> data, len |-> len, stride |-> byte_stride]

\* the assertion of new_raw: zero-sized element types are rejected
new_raw_ok == es # 0

\* mutation: the element stride is taken as a byte stride
new_bytes(data, len, elem_stride) == new_raw(data, len, elem_stride)

new(data, len, elem_stride) == new_raw(data, len, (elem_stride * es) % Word)

len(s) == s.len

\* imm::Stride::stride / mut_::Stride::stride: the stride in elements
stride(s) == s.stride \div es

checked_mul_ok(a, b) == a * b < Word

substrides2_ok(s) == checked_mul_ok(s.stride, 2)

\* mutation: the right half is not moved one stride along
substrides2_nostep(s) ==
    LET left_len == ((len(s) + 1) % Word) \div 2
        stride2 == s.stride * 2
    IN  <<new_raw(s.data, left_len, stride2), new_raw(s.data, len(s) - left_len, stride2)>>

substrides2(s) ==
    LET left_len == ((len(s) + 1) % Word) \div 2
        right_len == len(s) - left_len
        stride2 == s.stride * 2
        left_ptr == s.data
        right_ptr == IF len(s) = 0 THEN left_ptr ELSE step(left_ptr, s.stride)
    IN  <<new_raw(left_ptr, left_len, stride2), new_raw(right_ptr, right_len, stride2)>>

\* mutation: the length is rounded down
long_len_floor(l, n) == l \div n

long_len(l, n) == ((((l + n) % Word) + Word - 1) % Word) \div n

\* self.len() + n - 1 leaves the range of usize
long_len_overflows(l, n) == l + n >= Word \/ l + n = 0

substrides_ok(s, n) ==
    /\ n # 0
    /\ checked => ~long_len_overflows(len(s), n)
    /\ checked_mul_ok(n, s.stride)

\* mutation: no view is counted as long
substrides_nolong(s, n) ==
    [x |-> new_raw(s.data, long_len(len(s), n), n * s.stride),
     base_stride |-> s.stride,
     nlong |-> 0,
     count |-> n]

substrides(s, n) ==
    [x |-> new_raw(s.data, long_len(len(s), n), n * s.stride),
     base_stride |-> s.stride,
     nlong |-> len(s) % n,
     count |-> n]

\* mutation: off-by-one bounds check
get_inclusive(s, n) ==
    IF n <= s.len THEN <<step(s.data, (n * s.stride) % Word)>> ELSE <<>>

get(s, n) ==
    IF n < s.len THEN <<step(s.data, (n * s.stride) % Word)>> ELSE <<>>

\* mutation: the element is addressed as in a contiguous buffer
get_mut_unstrided(s, n) ==
    IF n < s.len THEN <<step(s.data, (n * es) % Word)>> ELSE <<>>

get_mut(s, n) ==
    IF n < s.len THEN <<step(s.data, (n * s.stride) % Word)>> ELSE <<>>

\* mutation: the upper bound is taken as exclusive
slice_ok_strict(s, from, to) == from <= to /\ to < len(s)

slice_ok(s, from, to) == from <= to /\ to <= len(s)

\* mutation: the base moves by elements of the buffer, not by strides of the view
slice_unstrided(s, from, to) ==
    new_raw(step(s.data, (from * es) % Word), to - from, s.stride)

slice(s, from, to) ==
    new_raw(step(s.data, (from * s.stride) % Word), to - from, s.stride)

slice_from_ok(s, from) == slice_ok(s, from, len(s))

slice_from(s, from) == slice(s, from, len(s))

slice_to_ok(s, to) == slice_ok(s, 0, to)

slice_to(s, to) == slice(s, 0, to)

split_at_ok(s, idx) == idx <= len(s)

\* mutation: the second half is one element too long
split_at_long(s, idx) ==
    <<new_raw(s.data, idx, s.stride),
      new_raw(step(s.data, (idx * s.stride) % Word), len(s) - idx + 1, s.stride)>>

\* mutation: the second half is not moved past the first
split_at_overlap(s, idx) ==
    <<new_raw(s.data, idx, s.stride), new_raw(s.data, len(s) - idx, s.stride)>>

split_at(s, idx) ==
    <<new_raw(s.data, idx, s.stride),
      new_raw(step(s.data, (idx * s.stride) % Word), len(s) - idx, s.stride)>>

\* --------------------------------------------------------- element iterator

iter_ok(s) == s.data + ((s.len * s.stride) % Word) < Word

iter(s) ==
    [start |-> s.data,
     end |-> step(s.data, (s.stride * s.len) % Word),
     stride |-> s.stride]

items_has_next(i) == i.start < i.end

items_next(i) == [i EXCEPT !.start = step(i.start, i.stride)]

\* mutation: the distance is divided by the element size, not the stride
size_hint_elems(i) == ((i.end + Word - i.start) % Word) \div es

size_hint(i) == ((i.end + Word - i.start) % Word) \div i.stride

\* mutation: the end cursor retreats by one element, not one stride
items_next_back_elem(i) == [i EXCEPT !.end = step(i.end, (Word - es) % Word)]

items_next_back(i) == [i EXCEPT !.end = step(i.end, (Word - i.stride) % Word)]

\* ------------------------------------------------------ substride partitioner

\* mutation: the cursor advances by the new stride, not the original one
substrides_next_tiled(p) ==
    LET p1 == [p EXCEPT !.count = p.count - 1]
        p2 == IF p1.nlong > 0
              THEN LET q == [p1 EXCEPT !.nlong = p1.nlong - 1]
                   IN  IF q.nlong = 0
                       THEN [q EXCEPT !.x.len = (q.x.len + Word - 1) % Word]
                       ELSE q
              ELSE p1
    IN  IF p2.x.len > 0
        THEN [p2 EXCEPT !.x.data = step(p2.x.data, p2.x.stride)]
        ELSE p2

\* mutation: the views of the long phase are not counted
substrides_next_uncounted(p) ==
    LET p1 == IF p.nlong > 0 THEN p ELSE [p EXCEPT !.count = p.count - 1]
        p2 == IF p1.nlong > 0
              THEN LET q == [p1 EXCEPT !.nlong = p1.nlong - 1]
                   IN  IF q.nlong = 0
                       THEN [q EXCEPT !.x.len = (q.x.len + Word - 1) % Word]
                       ELSE q
              ELSE p1
    IN  IF p2.x.len > 0
        THEN [p2 EXCEPT !.x.data = step(p2.x.data, p2.base_stride)]
        ELSE p2

substrides_next(p) ==
    LET p1 == [p EXCEPT !.count = p.count - 1]
        p2 == IF p1.nlong > 0
              THEN LET q == [p1 EXCEPT !.nlong = p1.nlong - 1]
                   IN  IF q.nlong = 0
                       THEN [q EXCEPT !.x.len = (q.x.len + Word - 1) % Word]
                       ELSE q
              ELSE p1
    IN  IF p2.x.len > 0
        THEN [p2 EXCEPT !.x.data = step(p2.x.data, p2.base_stride)]
        ELSE p2

substrides_size_hint(p) == p.count

\* ------------------------------------------------------------------ program

NoView == [data |-> 0, len |-> 0, stride |-> 0]
NoCall == [op |-> "none", self |-> NoView, args |-> <<>>, ok |-> TRUE, ret |-> <<>>]
NoSubOf == [self |-> NoView, n |-> 0]

Idle == it = <<>> /\ sub = <<>>

\* arguments up to one past the receiver's length: in range, at the end, out of range
Args == 0 .. len(v) + 1
\* partition counts: small ones, and the ones next to the largest usize
Counts == (0 .. MaxN) \cup {Word - 2, Word - 1}

Call(op, args, ok, ret) ==
    [op |-> op, self |-> v, args |-> args, ok |-> ok, ret |-> ret]

\* imm::Stride::new / mut_::Stride::new over a buffer of n elements at address b
Init ==
    /\ checked \in BOOLEAN
    /\ es \in ElemSizes
    /\ \E n \in 0 .. MaxLen :
          /\ mem = [i \in 1 .. n |-> i]
          /\ base \in {2 * es, Word - (n + 1) * es}
          /\ v = new(base, n, 1)
          /\ call = [op |-> "new", self |-> v, args |-> <<n, 1>>,
                     ok |-> new_raw_ok, ret |-> <<v>>]
    /\ it = <<>> /\ itOf = NoView /\ yielded = <<>> /\ nfront = 0
    /\ sub = <<>> /\ subOf = NoSubOf /\ produced = <<>>
    /\ handles = <<>> /\ ops = 0
    /\ other = NoView

Get ==
    /\ Idle
    /\ \E n \in Args : call' = Call("get", <<n>>, TRUE, get(v, n))
    /\ UNCHANGED <<handles, ops, checked, es, base, mem, other, v, it, itOf, yielded, nfront, sub, subOf, produced>>

\* mut_::Stride::get_mut
GetMut ==
    /\ Idle
    /\ \E n \in Args : call' = Call("get_mut", <<n>>, TRUE, get_mut(v, n))
    /\ UNCHANGED <<handles, ops, checked, es, base, mem, other, v, it, itOf, yielded, nfront, sub, subOf, produced>>

\* Index::index: self.get(n).expect(..)
Index ==
    /\ Idle
    /\ \E n \in Args : call' = Call("index", <<n>>, get(v, n) # <<>>, get(v, n))
    /\ UNCHANGED <<handles, ops, checked, es, base, mem, other, v, it, itOf, yielded, nfront, sub, subOf, produced>>

Slice ==
    /\ Idle
    /\ \E from \in Args, to \in Args :
          IF slice_ok(v, from, to)
          THEN /\ v' = slice(v, from, to)
               /\ call' = Call("slice", <<from, to>>, TRUE, <<v'>>)
          ELSE /\ v' = v
               /\ call' = Call("slice", <<from, to>>, FALSE, <<>>)
    /\ UNCHANGED <<handles, ops, checked, es, base, mem, other, it, itOf, yielded, nfront, sub, subOf, produced>>

SliceFrom ==
    /\ Idle
    /\ \E from \in Args :
          IF slice_from_ok(v, from)
          THEN /\ v' = slice_from(v, from)
               /\ call' = Call("slice_from", <<from>>, TRUE, <<v'>>)
          ELSE /\ v' = v
               /\ call' = Call("slice_from", <<from>>, FALSE, <<>>)
    /\ UNCHANGED <<handles, ops, checked, es, base, mem, other, it, itOf, yielded, nfront, sub, subOf, produced>>

SliceTo ==
    /\ Idle
    /\ \E to \in Args :
          IF slice_to_ok(v, to)
          THEN /\ v' = slice_to(v, to)
               /\ call' = Call("slice_to", <<to>>, TRUE, <<v'>>)
          ELSE /\ v' = v
               /\ call' = Call("slice_to", <<to>>, FALSE, <<>>)
    /\ UNCHANGED <<handles, ops, checked, es, base, mem, other, it, itOf, yielded, nfront, sub, subOf, produced>>

\* the program goes on with either half
SplitAt ==
    /\ Idle
    /\ \E idx \in Args :
          IF split_at_ok(v, idx)
          THEN /\ call' = Call("split_at", <<idx>>, TRUE, split_at(v, idx))
               /\ \E k \in 1 .. 2 : v' = split_at(v, idx)[k]
          ELSE /\ v' = v
               /\ call' = Call("split_at", <<idx>>, FALSE, <<>>)
    /\ UNCHANGED <<handles, ops, checked, es, base, mem, other, it, itOf, yielded, nfront, sub, subOf, produced>>

Substrides2 ==
    /\ Idle
    /\ IF substrides2_ok(v)
       THEN /\ call' = Call("substrides2", <<>>, TRUE, substrides2(v))
            /\ \E k \in 1 .. 2 : v' = substrides2(v)[k]
       ELSE /\ v' = v
            /\ call' = Call("substrides2", <<>>, FALSE, <<>>)
    /\ UNCHANGED <<handles, ops, checked, es, base, mem, other, it, itOf, yielded, nfront, sub, subOf, produced>>

Substrides ==
    /\ Idle
    /\ \E n \in Counts :
          IF substrides_ok(v, n)
          THEN /\ sub' = <<substrides(v, n)>>
               /\ subOf' = [self |-> v, n |-> n]
               /\ call' = Call("substrides", <<n>>, TRUE, <<>>)
          ELSE /\ UNCHANGED <<sub, subOf>>
               /\ call' = Call("substrides", <<n>>, FALSE, <<>>)
    /\ UNCHANGED <<handles, ops, checked, es, base, mem, other, v, it, itOf, yielded, nfront, produced>>

\* Substrides::next
SubNext ==
    /\ sub # <<>>
    /\ IF sub[1].count = 0
       THEN /\ call' = [op |-> "substrides_next", self |-> subOf.self,
                        args |-> <<>>, ok |-> TRUE, ret |-> <<>>]
            /\ UNCHANGED <<sub, produced>>
       ELSE /\ call' = [op |-> "substrides_next", self |-> subOf.self,
                        args |-> <<>>, ok |-> TRUE, ret |-> <<sub[1].x>>]
            /\ sub' = <<substrides_next(sub[1])>>
            /\ produced' = Append(produced, sub[1].x)
    /\ UNCHANGED <<handles, ops, checked, es, base, mem, other, v, it, itOf, yielded, nfront, subOf>>

\* the program drops the partitioner and goes on with one of the views it produced.
\* Views of a partitioner whose length computation wrapped are handed out and
\* recorded in `produced`, and the program is not followed into their use: an
\* access through them is a pointer offset outside the allocation.
SubTake ==
    /\ sub # <<>>
    /\ ~long_len_overflows(len(subOf.self), subOf.n)
    /\ \E k \in 1 .. Len(produced) : v' = produced[k]
    /\ sub' = <<>> /\ subOf' = NoSubOf /\ produced' = <<>>
    /\ call' = NoCall
    /\ UNCHANGED <<handles, ops, checked, es, base, mem, other, it, itOf, yielded, nfront>>

Iter ==
    /\ Idle
    /\ IF iter_ok(v)
       THEN /\ it' = <<iter(v)>>
            /\ itOf' = v
            /\ call' = Call("iter", <<>>, TRUE, <<>>)
       ELSE /\ UNCHANGED <<it, itOf>>
            /\ call' = Call("iter", <<>>, FALSE, <<>>)
    /\ UNCHANGED <<handles, ops, checked, es, base, mem, other, v, yielded, nfront, sub, subOf, produced>>

\* Items::next / MutItems::next
Next ==
    /\ it # <<>>
    /\ IF items_has_next(it[1])
       THEN /\ call' = [op |-> "next", self |-> itOf, args |-> <<>>,
                        ok |-> TRUE, ret |-> <<it[1].start>>]
            /\ it' = <<items_next(it[1])>>
            /\ yielded' = Append(yielded, it[1].start)
            /\ nfront' = nfront + 1
       ELSE /\ call' = [op |-> "next", self |-> itOf, args |-> <<>>,
                        ok |-> TRUE, ret |-> <<>>]
            /\ UNCHANGED <<it, yielded, nfront>>
    /\ UNCHANGED <<handles, ops, checked, es, base, mem, other, v, itOf, sub, subOf, produced>>

\* Items::next_back / MutItems::next_back
NextBack ==
    /\ it # <<>>
    /\ IF items_has_next(it[1])
       THEN /\ it' = <<items_next_back(it[1])>>
            /\ call' = [op |-> "next_back", self |-> itOf, args |-> <<>>,
                        ok |-> TRUE, ret |-> <<it'[1].end>>]
            /\ yielded' = Append(yielded, it'[1].end)
       ELSE /\ call' = [op |-> "next_back", self |-> itOf, args |-> <<>>,
                        ok |-> TRUE, ret |-> <<>>]
            /\ UNCHANGED <<it, yielded>>
    /\ UNCHANGED <<handles, ops, checked, es, base, mem, other, v, itOf, nfront, sub, subOf, produced>>

\* the iterator goes out of scope
IterDrop ==
    /\ it # <<>>
    /\ it' = <<>> /\ itOf' = NoView /\ yielded' = <<>> /\ nfront' = 0
    /\ call' = NoCall
    /\ UNCHANGED <<handles, ops, checked, es, base, mem, other, v, sub, subOf, produced>>

Next_ ==
    \/ Get \/ GetMut \/ Index
    \/ Slice \/ SliceFrom \/ SliceTo \/ SplitAt
    \/ Substrides2 \/ Substrides \/ SubNext \/ SubTake
    \/ Iter \/ Next \/ NextBack \/ IterDrop

Spec == Init /\ [][Next_]_vars

\* ------------------------------------------------- exclusive views (mut_.rs)
\* A slot of `handles` holds one exclusive handle of the program:
\*   "stride"      a mut_::Stride<'x, T>
\*   "wild"        a mut_::Stride<'x, T> yielded by a partitioner whose length
\*                 computation wrapped; the program is not followed into its use
\*   "ref"         a &'x mut T that MutItems::next handed out
\*   "substrides"  the mut_::Substrides<'x, T> whose state is `sub`
\*   "items"       the MutItems<'x, T> whose state is `it`
\*   "dead"        nothing: moved into a call, or out of scope
\* `origin` is the slot of the handle that reborrow(&'b mut self) borrowed to
\* give the lifetime 'x of this handle (0: the lifetime of the buffer borrow).
\* A handle that took `self` by value leaves its slot to the first result.

Dead == [kind |-> "dead", view |-> NoView, origin |-> 0]

Handle(kind, view, origin) == [kind |-> kind, view |-> view, origin |-> origin]

Slots == 1 .. MaxHandles

Free(hs) == {i \in Slots : hs[i].kind = "dead"}

FirstFree(hs) == CHOOSE i \in Free(hs) : \A j \in Free(hs) : i <= j

\* mutation: the alias does not hold the borrow (reborrow returning Stride<'a, T>)
Lent_never(i) == FALSE

\* `&'b mut self` is held for as long as anything of lifetime 'b is alive
Lent(i) == \E j \in Slots : handles[j].kind # "dead" /\ handles[j].origin = i

Usable(i) == handles[i].kind = "stride" /\ ~Lent(i)

MutArgs(i) == 0 .. len(handles[i].view) + 1

MutCall(op, i, args, ok, ret) ==
    [op |-> op, self |-> handles[i].view, args |-> args, ok |-> ok, ret |-> ret]

\* a failed call unwinds the program: every handle is dropped
Aborted == [i \in Slots |-> Dead]

\* slot i is consumed by a call that returns the views rs (none: the call failed)
Consume(i, rs) ==
    IF rs = <<>>
    THEN Aborted
    ELSE LET h1 == [handles EXCEPT ![i] = Handle("stride", rs[1], handles[i].origin)]
         IN  IF Len(rs) = 1
             THEN h1
             ELSE [h1 EXCEPT ![FirstFree(h1)] = Handle("stride", rs[2], handles[i].origin)]

\* mut_::Stride::new over a buffer of n elements
MutInit ==
    /\ checked \in BOOLEAN
    /\ es \in ElemSizes
    /\ \E n \in 0 .. MaxLen :
          /\ mem = [i \in 1 .. n |-> i]
          /\ base = 2 * es
          /\ handles = [i \in Slots |->
                           IF i = 1 THEN Handle("stride", new(base, n, 1), 0) ELSE Dead]
          /\ call = [op |-> "new", self |-> new(base, n, 1), args |-> <<n, 1>>,
                     ok |-> new_raw_ok, ret |-> <<new(base, n, 1)>>]
    /\ v = NoView /\ ops = 0
    /\ other = NoView
    /\ it = <<>> /\ itOf = NoView /\ yielded = <<>> /\ nfront = 0
    /\ sub = <<>> /\ subOf = NoSubOf /\ produced = <<>>

Reborrow ==
    /\ ops < MaxOps /\ ops' = ops + 1
    /\ \E i \in Slots :
          /\ Usable(i)
          /\ Free(handles) # {}
          /\ handles' = [handles EXCEPT
                            ![FirstFree(handles)] = Handle("stride", handles[i].view, i)]
          /\ call' = MutCall("reborrow", i, <<>>, TRUE, <<handles[i].view>>)
    /\ UNCHANGED <<checked, es, base, mem, other, v, it, itOf, yielded, nfront, sub, subOf, produced>>

\* the lifetime 'b of reborrow(&'b mut self) on slot o ends: everything that
\* borrows from o, directly or through a further reborrow, is gone
RECURSIVE Under(_, _)
Under(j, o) ==
    /\ handles[j].kind # "dead"
    /\ handles[j].origin # 0
    /\ (handles[j].origin = o \/ Under(handles[j].origin, o))

EndBorrow ==
    /\ \E o \in Slots :
          /\ Lent(o)
          /\ handles' = [j \in Slots |-> IF Under(j, o) THEN Dead ELSE handles[j]]
          /\ IF \E j \in Slots : Under(j, o) /\ handles[j].kind = "substrides"
             THEN sub' = <<>> /\ subOf' = NoSubOf /\ produced' = <<>>
             ELSE UNCHANGED <<sub, subOf, produced>>
          /\ IF \E j \in Slots : Under(j, o) /\ handles[j].kind = "items"
             THEN it' = <<>> /\ itOf' = NoView /\ yielded' = <<>> /\ nfront' = 0
             ELSE UNCHANGED <<it, itOf, yielded, nfront>>
    /\ call' = NoCall
    /\ UNCHANGED <<ops, checked, es, base, mem, other, v>>

SliceMut ==
    /\ ops < MaxOps /\ ops' = ops + 1
    /\ \E i \in Slots :
          /\ Usable(i)
          /\ \E from \in MutArgs(i), to \in MutArgs(i) :
                LET s == handles[i].view
                    ok == slice_ok(s, from, to)
                    rs == IF ok THEN <<slice(s, from, to)>> ELSE <<>>
                IN  /\ handles' = Consume(i, rs)
                    /\ call' = MutCall("slice_mut", i, <<from, to>>, ok, rs)
    /\ UNCHANGED <<checked, es, base, mem, other, v, it, itOf, yielded, nfront, sub, subOf, produced>>

SliceFromMut ==
    /\ ops < MaxOps /\ ops' = ops + 1
    /\ \E i \in Slots :
          /\ Usable(i)
          /\ \E from \in MutArgs(i) :
                LET s == handles[i].view
                    ok == slice_from_ok(s, from)
                    rs == IF ok THEN <<slice_from(s, from)>> ELSE <<>>
                IN  /\ handles' = Consume(i, rs)
                    /\ call' = MutCall("slice_from_mut", i, <<from>>, ok, rs)
    /\ UNCHANGED <<checked, es, base, mem, other, v, it, itOf, yielded, nfront, sub, subOf, produced>>

SliceToMut ==
    /\ ops < MaxOps /\ ops' = ops + 1
    /\ \E i \in Slots :
          /\ Usable(i)
          /\ \E to \in MutArgs(i) :
                LET s == handles[i].view
                    ok == slice_to_ok(s, to)
                    rs == IF ok THEN <<slice_to(s, to)>> ELSE <<>>
                IN  /\ handles' = Consume(i, rs)
                    /\ call' = MutCall("slice_to_mut", i, <<to>>, ok, rs)
    /\ UNCHANGED <<checked, es, base, mem, other, v, it, itOf, yielded, nfront, sub, subOf, produced>>

SplitAtMut ==
    /\ ops < MaxOps /\ ops' = ops + 1
    /\ \E i \in Slots :
          /\ Usable(i)
          /\ Free(handles) # {}
          /\ \E idx \in MutArgs(i) :
                LET s == handles[i].view
                    ok == split_at_ok(s, idx)
                    rs == IF ok THEN split_at(s, idx) ELSE <<>>
                IN  /\ handles' = Consume(i, rs)
                    /\ call' = MutCall("split_at_mut", i, <<idx>>, ok, rs)
    /\ UNCHANGED <<checked, es, base, mem, other, v, it, itOf, yielded, nfront, sub, subOf, produced>>

Substrides2Mut ==
    /\ ops < MaxOps /\ ops' = ops + 1
    /\ \E i \in Slots :
          /\ Usable(i)
          /\ Free(handles) # {}
          /\ LET s == handles[i].view
                 ok == substrides2_ok(s)
                 rs == IF ok THEN substrides2(s) ELSE <<>>
             IN  /\ handles' = Consume(i, rs)
                 /\ call' = MutCall("substrides2_mut", i, <<>>, ok, rs)
    /\ UNCHANGED <<checked, es, base, mem, other, v, it, itOf, yielded, nfront, sub, subOf, produced>>

SubstridesMut ==
    /\ ops < MaxOps /\ ops' = ops + 1
    /\ sub = <<>>
    /\ \E i \in Slots :
          /\ Usable(i)
          /\ \E n \in Counts :
                LET s == handles[i].view
                IN  IF substrides_ok(s, n)
                    THEN /\ handles' = [handles EXCEPT ![i].kind = "substrides"]
                         /\ sub' = <<substrides(s, n)>>
                         /\ subOf' = [self |-> s, n |-> n]
                         /\ call' = MutCall("substrides_mut", i, <<n>>, TRUE, <<>>)
                    ELSE /\ handles' = Consume(i, <<>>)
                         /\ UNCHANGED <<sub, subOf>>
                         /\ call' = MutCall("substrides_mut", i, <<n>>, FALSE, <<>>)
    /\ UNCHANGED <<checked, es, base, mem, other, v, it, itOf, yielded, nfront, produced>>

\* mut_::Substrides::next
SubNextMut ==
    /\ sub # <<>>
    /\ \E i \in Slots :
          /\ handles[i].kind = "substrides"
          /\ IF sub[1].count = 0
             THEN /\ call' = MutCall("substrides_next", i, <<>>, TRUE, <<>>)
                  /\ UNCHANGED <<handles, sub, produced>>
             ELSE /\ Free(handles) # {}
                  /\ call' = MutCall("substrides_next", i, <<>>, TRUE, <<sub[1].x>>)
                  /\ handles' = [handles EXCEPT ![FirstFree(handles)] =
                                    Handle(IF long_len_overflows(len(subOf.self), subOf.n)
                                           THEN "wild" ELSE "stride",
                                           sub[1].x, handles[i].origin)]
                  /\ sub' = <<substrides_next(sub[1])>>
                  /\ produced' = Append(produced, sub[1].x)
    /\ UNCHANGED <<ops, checked, es, base, mem, other, v, it, itOf, yielded, nfront, subOf>>

\* the partitioner goes out of scope
SubDropMut ==
    /\ sub # <<>>
    /\ \E i \in Slots :
          /\ handles[i].kind = "substrides"
          /\ handles' = [handles EXCEPT ![i] = Dead]
    /\ sub' = <<>> /\ subOf' = NoSubOf /\ produced' = <<>>
    /\ call' = NoCall
    /\ UNCHANGED <<ops, checked, es, base, mem, other, v, it, itOf, yielded, nfront>>

\* mut_::Stride::into_iter
IntoIter ==
    /\ ops < MaxOps /\ ops' = ops + 1
    /\ it = <<>>
    /\ \E i \in Slots :
          /\ Usable(i)
          /\ LET s == handles[i].view
             IN  IF iter_ok(s)
                 THEN /\ handles' = [handles EXCEPT ![i].kind = "items"]
                      /\ it' = <<iter(s)>>
                      /\ itOf' = s
                      /\ call' = MutCall("into_iter", i, <<>>, TRUE, <<>>)
                 ELSE /\ handles' = Consume(i, <<>>)
                      /\ UNCHANGED <<it, itOf>>
                      /\ call' = MutCall("into_iter", i, <<>>, FALSE, <<>>)
    /\ UNCHANGED <<checked, es, base, mem, other, v, yielded, nfront, sub, subOf, produced>>

\* MutItems::next: the element handed out is a &'a mut T
ItemsNextMut ==
    /\ it # <<>>
    /\ \E i \in Slots :
          /\ handles[i].kind = "items"
          /\ IF items_has_next(it[1])
             THEN /\ Free(handles) # {}
                  /\ call' = MutCall("next", i, <<>>, TRUE, <<it[1].start>>)
                  /\ handles' = [handles EXCEPT ![FirstFree(handles)] =
                                    Handle("ref", new_raw(it[1].start, 1, es), handles[i].origin)]
                  /\ it' = <<items_next(it[1])>>
                  /\ yielded' = Append(yielded, it[1].start)
                  /\ nfront' = nfront + 1
             ELSE /\ call' = MutCall("next", i, <<>>, TRUE, <<>>)
                  /\ UNCHANGED <<handles, it, yielded, nfront>>
    /\ UNCHANGED <<ops, checked, es, base, mem, other, v, itOf, sub, subOf, produced>>

\* MutItems::next_back
ItemsNextBackMut ==
    /\ it # <<>>
    /\ \E i \in Slots :
          /\ handles[i].kind = "items"
          /\ IF items_has_next(it[1])
             THEN /\ Free(handles) # {}
                  /\ it' = <<items_next_back(it[1])>>
                  /\ call' = MutCall("next_back", i, <<>>, TRUE, <<it'[1].end>>)
                  /\ handles' = [handles EXCEPT ![FirstFree(handles)] =
                                    Handle("ref", new_raw(it'[1].end, 1, es), handles[i].origin)]
                  /\ yielded' = Append(yielded, it'[1].end)
             ELSE /\ call' = MutCall("next_back", i, <<>>, TRUE, <<>>)
                  /\ UNCHANGED <<handles, it, yielded>>
    /\ UNCHANGED <<ops, checked, es, base, mem, other, v, itOf, nfront, sub, subOf, produced>>

\* the iterator goes out of scope
ItemsDropMut ==
    /\ it # <<>>
    /\ \E i \in Slots :
          /\ handles[i].kind = "items"
          /\ handles' = [handles EXCEPT ![i] = Dead]
    /\ it' = <<>> /\ itOf' = NoView /\ yielded' = <<>> /\ nfront' = 0
    /\ call' = NoCall
    /\ UNCHANGED <<ops, checked, es, base, mem, other, v, sub, subOf, produced>>

MutNext ==
    \/ Reborrow \/ EndBorrow
    \/ SliceMut \/ SliceFromMut \/ SliceToMut \/ SplitAtMut
    \/ Substrides2Mut \/ SubstridesMut \/ SubNextMut \/ SubDropMut
    \/ IntoIter \/ ItemsNextMut \/ ItemsNextBackMut \/ ItemsDropMut

MutSpec == MutInit /\ [][MutNext]_vars

\* ------------------------------------- comparisons (PartialEq, PartialOrd, Ord)
MaxCmpLen == 3
MaxCmpStride == 2

\* an element that compares with nothing, itself included (f64::NAN)
Incomparable == 0

ElemVals == {Incomparable, 1, 2}

\* *ptr for a pointer into the buffer
Read(addr) == mem[((addr - base) \div es) + 1]

\* T::eq
elem_eq(x, y) == x # Incomparable /\ y # Incomparable /\ x = y

\* T::partial_cmp
elem_partial_cmp(x, y) ==
    IF x = Incomparable \/ y = Incomparable THEN "None"
    ELSE IF x < y THEN "Less"
    ELSE IF x > y THEN "Greater"
    ELSE "Equal"

\* std::iter::order::eq over two Items
RECURSIVE order_eq(_, _)
order_eq(a, b) ==
    IF ~items_has_next(a) THEN ~items_has_next(b)
    ELSE IF ~items_has_next(b) THEN FALSE
    ELSE IF ~elem_eq(Read(a.start), Read(b.start)) THEN FALSE
    ELSE order_eq(items_next(a), items_next(b))

\* std::iter::order::partial_cmp over two Items
RECURSIVE order_partial_cmp(_, _)
order_partial_cmp(a, b) ==
    IF ~items_has_next(a) THEN (IF ~items_has_next(b) THEN "Equal" ELSE "Less")
    ELSE IF ~items_has_next(b) THEN "Greater"
    ELSE LET c == elem_partial_cmp(Read(a.start), Read(b.start))
         IN  IF c = "Equal" THEN order_partial_cmp(items_next(a), items_next(b)) ELSE c

\* std::iter::order::cmp over two Items (T: Ord)
RECURSIVE order_cmp(_, _)
order_cmp(a, b) ==
    IF ~items_has_next(a) THEN (IF ~items_has_next(b) THEN "Equal" ELSE "Less")
    ELSE IF ~items_has_next(b) THEN "Greater"
    ELSE LET x == Read(a.start)
             y == Read(b.start)
         IN  IF x < y THEN "Less"
             ELSE IF x > y THEN "Greater"
             ELSE order_cmp(items_next(a), items_next(b))

\* PartialEq::eq; iter() is reached only when the lengths agree
eq_ok(s, o) == len(s) = len(o) => iter_ok(s) /\ iter_ok(o)
eq(s, o) == len(s) = len(o) /\ order_eq(iter(s), iter(o))

partial_cmp_ok(s, o) == iter_ok(s) /\ iter_ok(o)

\* mutation: the operands are exchanged
partial_cmp_swapped(s, o) == order_partial_cmp(iter(o), iter(s))

\* PartialOrd::partial_cmp
partial_cmp(s, o) == order_partial_cmp(iter(s), iter(o))

cmp_ok(s, o) == iter_ok(s) /\ iter_ok(o)
cmp(s, o) == order_cmp(iter(s), iter(o))

\* the element type is Ord when none of its values is incomparable
IsOrd == \A i \in 1 .. Len(mem) : mem[i] # Incomparable

\* Stride::new over a buffer of any elements
CmpInit ==
    /\ checked \in BOOLEAN
    /\ es = 2
    /\ \E n \in 0 .. MaxCmpLen :
          /\ mem \in [1 .. n -> ElemVals]
          /\ base \in {2 * es, Word - (n + 1) * es}
          /\ v = new(base, n, 1)
          /\ call = [op |-> "new", self |-> v, args |-> <<n, 1>>,
                     ok |-> new_raw_ok, ret |-> <<v>>]
    /\ other = NoView
    /\ it = <<>> /\ itOf = NoView /\ yielded = <<>> /\ nfront = 0
    /\ sub = <<>> /\ subOf = NoSubOf /\ produced = <<>>
    /\ handles = <<>> /\ ops = 0

\* Stride::new on the buffer again
New ==
    /\ v' = new(base, Len(mem), 1)
    /\ call' = [op |-> "new", self |-> v', args |-> <<Len(mem), 1>>,
                ok |-> new_raw_ok, ret |-> <<v'>>]
    /\ UNCHANGED <<handles, ops, checked, es, base, mem, other, it, itOf, yielded, nfront, sub, subOf, produced>>

\* `let other = v;` (imm::Stride is Copy)
Keep ==
    /\ other' = v
    /\ call' = NoCall
    /\ UNCHANGED <<handles, ops, checked, es, base, mem, v, it, itOf, yielded, nfront, sub, subOf, produced>>

\* v == other, v.partial_cmp(&other) and, for an Ord element type, v.cmp(&other)
Compare ==
    /\ call' = [op |-> "compare", self |-> v, args |-> <<other>>,
                ok |-> <<eq_ok(v, other), partial_cmp_ok(v, other), cmp_ok(v, other)>>,
                ret |-> <<IF eq_ok(v, other) THEN <<eq(v, other)>> ELSE <<>>,
                          IF partial_cmp_ok(v, other) THEN <<partial_cmp(v, other)>> ELSE <<>>,
                          IF IsOrd /\ cmp_ok(v, other) THEN <<cmp(v, other)>> ELSE <<>> >>]
    /\ UNCHANGED <<handles, ops, checked, es, base, mem, other, v, it, itOf, yielded, nfront, sub, subOf, produced>>

\* a program that compares the views it derives; a failed call ends it
CmpNext ==
    \/ New \/ Keep \/ Compare
    \/ /\ SliceFrom \/ SliceTo \/ Substrides2
       /\ call'.ok = TRUE
       /\ stride(v') <= MaxCmpStride

CmpSpec == CmpInit /\ [][CmpNext]_vars

\* ---------------------------------------------------------------- reborrowing
\* The exclusive program as the crate's tests build it (u16 elements, overflow
\* checks on), reborrowing and consuming: slices, splits, substrides2_mut and
\* into_iter.  It makes at most MaxOps calls, those on its iterator included.
BorrowInit == MutInit /\ es = 2 /\ checked

BorrowNext ==
    /\ \/ Reborrow \/ EndBorrow
       \/ SliceMut \/ SliceFromMut \/ SliceToMut \/ SplitAtMut \/ Substrides2Mut
       \/ IntoIter \/ ItemsNextMut \/ ItemsNextBackMut \/ ItemsDropMut
    /\ ops' + Len(yielded') <= MaxOps

BorrowSpec == BorrowInit /\ [][BorrowNext]_vars

\* -------------------------------------------------------------------- writing
\* The exclusive program reading and writing elements: get through Deref,
\* `*r = val` on the reference get_mut, index_mut or a MutItems hands out.

\* the buffer after `*ptr = val`
store(ptr, val) == [mem EXCEPT ![((ptr - base) \div es) + 1] = val]

\* (**self).get(n): the shared view's get through Deref
DerefGet ==
    /\ ops < MaxOps /\ ops' = ops + 1
    /\ \E i \in Slots :
          /\ Usable(i)
          /\ \E n \in MutArgs(i) :
                call' = MutCall("get", i, <<n>>, TRUE, get(handles[i].view, n))
    /\ UNCHANGED <<handles, checked, es, base, mem, other, v, it, itOf, yielded, nfront, sub, subOf, produced>>

\* s.get_mut(n).map(|r| *r = val)
SetGetMut ==
    /\ ops < MaxOps /\ ops' = ops + 1
    /\ \E i \in Slots :
          /\ Usable(i)
          /\ \E n \in MutArgs(i), val \in ElemVals :
                LET r == get_mut(handles[i].view, n)
                IN  /\ call' = MutCall("get_mut", i, <<n, val>>, TRUE, r)
                    /\ mem' = IF r # <<>> THEN store(r[1], val) ELSE mem
    /\ UNCHANGED <<handles, checked, es, base, other, v, it, itOf, yielded, nfront, sub, subOf, produced>>

\* s[n] = val: IndexMut::index_mut is get_mut(n).expect(..)
SetIndexMut ==
    /\ ops < MaxOps /\ ops' = ops + 1
    /\ \E i \in Slots :
          /\ Usable(i)
          /\ \E n \in MutArgs(i), val \in ElemVals :
                LET r == get_mut(handles[i].view, n)
                IN  /\ call' = MutCall("index_mut", i, <<n, val>>, r # <<>>, r)
                    /\ mem' = IF r # <<>> THEN store(r[1], val) ELSE mem
                    /\ handles' = IF r # <<>> THEN handles ELSE Aborted
    /\ UNCHANGED <<checked, es, base, other, v, it, itOf, yielded, nfront, sub, subOf, produced>>

\* mut_::Stride::iter_mut: self.reborrow().into_iter()
IterMut ==
    /\ ops < MaxOps /\ ops' = ops + 1
    /\ it = <<>>
    /\ \E i \in Slots :
          /\ Usable(i)
          /\ Free(handles) # {}
          /\ LET s == handles[i].view
             IN  IF iter_ok(s)
                 THEN /\ handles' = [handles EXCEPT
                                        ![FirstFree(handles)] = Handle("items", s, i)]
                      /\ it' = <<iter(s)>>
                      /\ itOf' = s
                      /\ call' = MutCall("iter_mut", i, <<>>, TRUE, <<>>)
                 ELSE /\ handles' = Aborted
                      /\ UNCHANGED <<it, itOf>>
                      /\ call' = MutCall("iter_mut", i, <<>>, FALSE, <<>>)
    /\ UNCHANGED <<checked, es, base, mem, other, v, yielded, nfront, sub, subOf, produced>>

\* *x = val on a reference a MutItems handed out
SetRef ==
    /\ ops < MaxOps /\ ops' = ops + 1
    /\ \E j \in Slots, val \in ElemVals :
          /\ handles[j].kind = "ref"
          /\ call' = MutCall("deref_mut", j, <<0, val>>, TRUE, <<handles[j].view.data>>)
          /\ mem' = store(handles[j].view.data, val)
    /\ UNCHANGED <<handles, checked, es, base, other, v, it, itOf, yielded, nfront, sub, subOf, produced>>

WriteInit == MutInit /\ es = 2 /\ checked

WriteNext ==
    /\ \/ Reborrow \/ EndBorrow
       \/ SliceMut \/ SplitAtMut \/ Substrides2Mut
       \/ DerefGet \/ SetGetMut \/ SetIndexMut
       \/ IterMut \/ ItemsNextMut \/ ItemsNextBackMut \/ ItemsDropMut \/ SetRef
    /\ ops' + Len(yielded') <= MaxOps

WriteSpec == WriteInit /\ [][WriteNext]_vars

\* ------------------------------------------------------------------ claims

CeilDiv(a, b) == IF a % b = 0 THEN a \div b ELSE (a \div b) + 1

RECURSIVE SumLen(_)
SumLen(q) == IF q = <<>> THEN 0 ELSE Head(q).len + SumLen(Tail(q))

\* the buffer's element addresses
BufLen == Len(mem)
InBuf(a) == a >= base /\ a < base + BufLen * es /\ (a - base) % es = 0

Exhausted == sub # <<>> /\ sub[1].count = 0

\* C1: substrides(n) on a view of length L yields exactly n views, each with n
\* times the receiver's stride; the first L mod n have length ceil(L/n), the
\* other n - (L mod n) have length floor(L/n), and the lengths sum to L (also
\* for L < n and L = 0).
C1_SubstridesShape ==
    sub # <<>> =>
        LET L == subOf.self.len
            n == subOf.n
        IN  /\ Len(produced) <= n
            /\ \A k \in 1 .. Len(produced) :
                  /\ produced[k].stride = n * subOf.self.stride
                  /\ stride(produced[k]) = n * stride(subOf.self)
                  /\ produced[k].len = IF k <= L % n THEN CeilDiv(L, n) ELSE L \div n
            /\ Len(produced) < n => sub[1].count > 0
            /\ Exhausted => Len(produced) = n /\ SumLen(produced) = L
            /\ (call.op = "substrides_next" /\ call.ret = <<>>) => Len(produced) = n

\* the live partitioner was built with a wrapped self.len() + n - 1
SubWrapped == sub # <<>> /\ long_len_overflows(len(subOf.self), subOf.n)

\* the shape holds of every partitioner whose length computation did not wrap
SubstridesShapeUnlessWrapped == SubWrapped \/ C1_SubstridesShape

\* C2: the j-th element of the k-th view substrides(n) yields is the receiver's
\* element k + j*n (k counted from 0); every index of the receiver is in exactly
\* one produced view, once, and taking the views round-robin gives the
\* receiver's sequence back in order.
C2_SubstridesInterleave ==
    sub # <<>> =>
        LET s == subOf.self
            n == subOf.n
        IN  /\ \A k \in 1 .. Len(produced) :
                  \A j \in 0 .. produced[k].len - 1 :
                      /\ get(produced[k], j) # <<>>
                      /\ get(produced[k], j) = get(s, (k - 1) + j * n)
            /\ Exhausted =>
                  \A i \in 0 .. s.len - 1 :
                      /\ get(produced[(i % n) + 1], i \div n) = get(s, i)
                      /\ Cardinality({kj \in (1 .. n) \X (0 .. s.len) :
                             get(produced[kj[1]], kj[2]) = get(s, i)}) = 1

\* the interleaving holds of every partitioner whose length computation did not wrap
SubstridesInterleaveUnlessWrapped == SubWrapped \/ C2_SubstridesInterleave

\* C3: substrides2 on a view of length L returns (left, right) of lengths
\* ceil(L/2) and L - ceil(L/2), both with twice the receiver's stride; left
\* holds the receiver's even-indexed elements, right the odd-indexed ones, in
\* order.
C3_Substrides2 ==
    (call.op = "substrides2" /\ call.ok) =>
        LET s == call.self
            l == call.ret[1]
            r == call.ret[2]
        IN  /\ Len(call.ret) = 2
            /\ l.len = CeilDiv(s.len, 2)
            /\ r.len = s.len - CeilDiv(s.len, 2)
            /\ l.stride = 2 * s.stride /\ r.stride = 2 * s.stride
            /\ stride(l) = 2 * stride(s) /\ stride(r) = 2 * stride(s)
            /\ \A j \in 0 .. l.len - 1 : get(l, j) # <<>> /\ get(l, j) = get(s, 2 * j)
            /\ \A j \in 0 .. r.len - 1 : get(r, j) # <<>> /\ get(r, j) = get(s, 2 * j + 1)
            /\ \A i \in 0 .. s.len - 1 : get(call.ret[(i % 2) + 1], i \div 2) = get(s, i)

C3_Witness ==
    /\ call.op = "substrides2" /\ call.ok
    /\ call.self.len = 3 /\ call.self.stride = es
    /\ call.ret[1].len = 2 /\ call.ret[2].len = 1

C6_SplitAtIsSlicePair ==
    (call.op = "split_at" /\ call.args[1] <= call.self.len) =>
        /\ call.ok
        /\ call.ret = <<slice_to(call.self, call.args[1]), slice_from(call.self, call.args[1])>>
        /\ call.ret[1].len + call.ret[2].len = call.self.len

C6_Witness ==
    /\ call.op = "split_at" /\ call.ok
    /\ call.self.len = 3 /\ call.self.stride = es /\ call.args = <<2>>
    /\ call.ret[2].data = call.self.data + 2 * es /\ call.ret[2].len = 1

\* C7: slice(from, to), from <= to <= len, returns a view of length to - from
\* with the receiver's stride whose i-th element is the receiver's element
\* from + i; slice_from(from) is slice(from, len) and slice_to(to) is slice(0, to).
SliceOf(s, r, from, to) ==
    /\ r.len = to - from
    /\ r.stride = s.stride
    /\ \A i \in 0 .. (to - from) - 1 : get(r, i) # <<>> /\ get(r, i) = get(s, from + i)

C7_Slice ==
    /\ (call.op = "slice" /\ call.args[1] <= call.args[2] /\ call.args[2] <= call.self.len) =>
          /\ call.ok /\ Len(call.ret) = 1
          /\ SliceOf(call.self, call.ret[1], call.args[1], call.args[2])
    /\ (call.op = "slice_from" /\ call.args[1] <= call.self.len) =>
          /\ call.ok
          /\ call.ret = <<slice(call.self, call.args[1], call.self.len)>>
          /\ SliceOf(call.self, call.ret[1], call.args[1], call.self.len)
    /\ (call.op = "slice_to" /\ call.args[1] <= call.self.len) =>
          /\ call.ok
          /\ call.ret = <<slice(call.self, 0, call.args[1])>>
          /\ SliceOf(call.self, call.ret[1], 0, call.args[1])

C7_Witness ==
    /\ call.op = "slice" /\ call.ok
    /\ call.self.len = 2 /\ call.self.stride = 2 * es /\ call.args = <<1, 2>>
    /\ call.ret[1].data = call.self.data + 2 * es

\* C8: slice(from, to) fails exactly when from > to or to > len, slice_from(from)
\* exactly when from > len, slice_to(to) and split_at(to) exactly when to > len;
\* a failed call produces no view, and the boundary arguments succeed and give
\* empty views.
C8_SliceFailures ==
    LET L == call.self.len
        a == call.args
    IN  /\ call.op = "slice" => (~call.ok <=> (a[1] > a[2] \/ a[2] > L))
        /\ call.op = "slice_from" => (~call.ok <=> a[1] > L)
        /\ call.op = "slice_to" => (~call.ok <=> a[1] > L)
        /\ call.op = "split_at" => (~call.ok <=> a[1] > L)
        /\ (call.op \in {"slice", "slice_from", "slice_to", "split_at"} /\ ~call.ok) =>
              call.ret = <<>> /\ v = call.self
        /\ (call.op = "slice" /\ a = <<L, L>>) => call.ok /\ call.ret[1].len = 0
        /\ (call.op = "slice_from" /\ a = <<L>>) => call.ok /\ call.ret[1].len = 0
        /\ (call.op = "slice_to" /\ a = <<0>>) => call.ok /\ call.ret[1].len = 0
        /\ (call.op = "split_at" /\ a = <<0>>) => call.ok /\ call.ret[1].len = 0
        /\ (call.op = "split_at" /\ a = <<L>>) => call.ok /\ call.ret[2].len = 0

C8_Witness ==
    /\ call.op = "slice" /\ ~call.ok
    /\ call.self.len = 2 /\ call.args = <<1, 3>>

Addrs(s) == {get(s, j)[1] : j \in 0 .. s.len - 1}

\* the views a partitioner has still to produce
RECURSIVE RemainingViews(_)
RemainingViews(p) ==
    IF p.count = 0 THEN <<>> ELSE <<p.x>> \o RemainingViews(substrides_next(p))

\* the element addresses the handle in slot i gives access to
Reach(i) ==
    CASE handles[i].kind \in {"stride", "wild", "ref"} -> Addrs(handles[i].view)
      [] handles[i].kind = "items" ->
            {step(it[1].start, (k * it[1].stride) % Word) : k \in 0 .. size_hint(it[1]) - 1}
      [] handles[i].kind = "substrides" ->
            LET rv == RemainingViews(sub[1])
            IN  UNION {Addrs(rv[k]) : k \in 1 .. Len(rv)}
      [] OTHER -> {}

\* usable now: alive and not suspended by a live reborrow
Active(i) == handles[i].kind # "dead" /\ ~Lent(i)

\* C5: no buffer element is addressable through two distinct exclusive handles
\* that are usable at the same time (a handle suspended by a live reborrow, or
\* consumed, is not usable); the views split_at_mut, substrides2_mut and
\* substrides_mut return together are pairwise disjoint subsets of the
\* consumed parent's elements.
C5_NoAliasing ==
    LET R == [i \in Slots |-> Reach(i)]
        P == [k \in 1 .. Len(produced) |-> Addrs(produced[k])]
    IN  /\ \A i, j \in Slots :
              (i < j /\ Active(i) /\ Active(j)) => R[i] \cap R[j] = {}
        /\ \A i, j \in Slots :
              (i < j /\ R[i] \cap R[j] # {}) => (Under(i, j) \/ Under(j, i))
        /\ \A j \in Slots :
              (handles[j].kind # "dead" /\ handles[j].origin # 0) =>
                  /\ handles[handles[j].origin].kind = "stride"
                  /\ R[j] \subseteq Addrs(handles[handles[j].origin].view)
        /\ (call.op \in {"split_at_mut", "substrides2_mut"} /\ call.ok) =>
              /\ Addrs(call.ret[1]) \cap Addrs(call.ret[2]) = {}
              /\ Addrs(call.ret[1]) \cup Addrs(call.ret[2]) \subseteq Addrs(call.self)
        /\ (call.op \in {"slice_mut", "slice_from_mut", "slice_to_mut"} /\ call.ok) =>
              Addrs(call.ret[1]) \subseteq Addrs(call.self)
        /\ \A i \in Slots : handles[i].kind = "substrides" =>
              \A k \in 1 .. Len(produced) :
                  /\ P[k] \subseteq Addrs(subOf.self)
                  /\ \A m \in 1 .. Len(produced) : k < m => P[k] \cap P[m] = {}
                  /\ P[k] \cap R[i] = {}
        /\ \A i \in Slots : handles[i].kind = "items" =>
              \A k \in 1 .. Len(yielded) :
                  yielded[k] \in Addrs(itOf) /\ yielded[k] \notin R[i]

\* the handles are disjoint as long as no partitioner's length computation wrapped
NoAliasingUnlessWrapped ==
    \/ SubWrapped
    \/ \E i \in Slots : handles[i].kind = "wild"
    \/ C5_NoAliasing

\* C11: the partitioner substrides(n) returns produces a view on each of its
\* first n next() calls and nothing on every later call; at every step its size
\* hint is n minus the number of views produced so far (n at first, 0 when
\* exhausted).
C11_PartitionerCount ==
    sub # <<>> =>
        LET n == subOf.n
        IN  /\ Len(produced) <= n
            /\ substrides_size_hint(sub[1]) = n - Len(produced)
            /\ call.op = "substrides" => produced = <<>> /\ substrides_size_hint(sub[1]) = n
            /\ (call.op = "substrides_next" /\ call.ret # <<>>) =>
                  Len(produced) >= 1 /\ call.ret = <<produced[Len(produced)]>>
            /\ (call.op = "substrides_next" /\ call.ret = <<>>) =>
                  Len(produced) = n /\ substrides_size_hint(sub[1]) = 0

C11_Witness ==
    /\ sub # <<>> /\ subOf.n = 3 /\ Len(produced) = 3
    /\ call.op = "substrides_next" /\ call.ret = <<>>
    /\ substrides_size_hint(sub[1]) = 0

\* slot i has a live alias: a handle that reborrow (or a call consuming one) gave
HasAlias(i) == \E j \in Slots : handles[j].kind # "dead" /\ handles[j].origin = i

\* slot i holds an alias itself, whose scope ends in this step with all of its own aliases
OutOfScope(i) ==
    /\ handles[i].origin # 0
    /\ handles'[i] = Dead
    /\ \A j \in Slots : handles[j].origin = i => handles'[j] = Dead

Strides(hs) == {j \in Slots : hs[j].kind = "stride"}

\* C12: reborrow() returns an alias with the base, length and stride (hence the
\* elements) of the original and leaves the original as it was; while the alias
\* or a view derived from it is live the original is untouched, and once they
\* are gone it is usable again with the same base, length and stride, so the
\* reborrow-and-consume can be repeated; a consuming call made directly on a
\* handle uses the handle up (only the call's results remain).
C12_ReborrowStep ==
    /\ (call'.op = "reborrow" /\ ops' = ops + 1) =>
          \E i, j \in Slots :
              /\ i # j /\ handles[i].kind = "stride" /\ ~HasAlias(i)
              /\ handles[j].kind = "dead"
              /\ handles'[j] = Handle("stride", handles[i].view, i)
              /\ handles'[i] = handles[i]
              /\ \A k \in Slots \ {j} : handles'[k] = handles[k]
              /\ call'.ret = <<handles[i].view>> /\ call'.self = handles[i].view
              /\ Addrs(handles'[j].view) = Addrs(handles[i].view)
              /\ HasAlias(i)'
    /\ \A i \in Slots :
          HasAlias(i) =>
              \/ handles'[i] = handles[i]
              \/ handles' = Aborted
              \/ OutOfScope(i)
    /\ \A i \in Slots :
          (HasAlias(i) /\ ~HasAlias(i)' /\ handles' # Aborted /\ ~OutOfScope(i)) =>
              /\ handles'[i] = handles[i]
              /\ handles[i].kind = "stride" /\ Usable(i)'
    /\ (call'.op \in {"slice_mut", "slice_from_mut", "slice_to_mut", "split_at_mut",
                      "substrides2_mut", "into_iter"} /\ ops' = ops + 1) =>
          IF call'.ok
          THEN /\ Cardinality(Strides(handles')) =
                      Cardinality(Strides(handles)) - 1 + Len(call'.ret)
               /\ \E i \in Slots :
                     /\ handles[i].kind = "stride" /\ ~HasAlias(i)
                     /\ handles[i].view = call'.self
          ELSE handles' = Aborted
    /\ UNCHANGED <<mem, base>>

C12_Reborrow == [][C12_ReborrowStep]_vars

\* the handle is reborrowed again after a first alias was consumed and went away
C12_Witness ==
    /\ call.op = "reborrow" /\ ops = 3
    /\ handles[1] = Handle("stride", new(base, Len(mem), 1), 0) /\ Len(mem) = 3
    /\ handles[2] = Handle("stride", new(base, Len(mem), 1), 1)
    /\ \A k \in Slots \ {1, 2} : handles[k].kind = "dead"

\* C13: substrides(n) fails exactly when n = 0 or n times the byte stride
\* overflows the word, substrides2 exactly when twice the byte stride overflows;
\* a failed call produces no view, a successful one has the exact product as
\* its stride (never a wrapped one), and every other call succeeds, whatever
\* the length.
C13_SubstridesFailures ==
    /\ call.op = "substrides" =>
          LET n == call.args[1]
          IN  /\ ~call.ok <=> (n = 0 \/ n * call.self.stride >= Word)
              /\ ~call.ok => sub = <<>> /\ produced = <<>> /\ v = call.self
              /\ call.ok => /\ sub # <<>>
                            /\ sub[1].x.stride = n * call.self.stride
                            /\ sub[1].x.stride < Word
    /\ call.op = "substrides2" =>
          /\ ~call.ok <=> 2 * call.self.stride >= Word
          /\ ~call.ok => call.ret = <<>> /\ v = call.self
          /\ call.ok => /\ Len(call.ret) = 2
                        /\ \A k \in 1 .. 2 : call.ret[k].stride = 2 * call.self.stride
                                             /\ call.ret[k].stride < Word

\* the failures are as stated for every call whose self.len() + n - 1 does not wrap
SubstridesFailuresUnlessWrapped ==
    \/ call.op = "substrides" /\ long_len_overflows(len(call.self), call.args[1])
    \/ C13_SubstridesFailures


\* the elements a view shows, in traversal order
Vis(s) == [k \in 1 .. len(s) |-> mem[((s.data + (k - 1) * s.stride - base) \div es) + 1]]

Min(a, b) == IF a < b THEN a ELSE b

\* lexicographic order of two element sequences
Lex(a, b) ==
    LET Diff == {k \in 1 .. Min(Len(a), Len(b)) : elem_partial_cmp(a[k], b[k]) # "Equal"}
        first == CHOOSE k \in Diff : \A j \in Diff : k <= j
    IN  IF Diff # {} THEN elem_partial_cmp(a[first], b[first])
        ELSE IF Len(a) < Len(b) THEN "Less"
        ELSE IF Len(a) > Len(b) THEN "Greater"
        ELSE "Equal"

\* C14: a comparison of two views that returns says they are equal exactly
\* when they have the same length and pairwise equal visible elements,
\* whatever their bases and strides, and orders them lexicographically by
\* their visible elements: the first pair that is not equal decides (an
\* incomparable pair makes the views incomparable), and otherwise the shorter
\* view, a strict prefix, is Less.
C14_Comparisons ==
    call.op = "compare" =>
        LET a == Vis(call.self)
            b == Vis(call.args[1])
        IN  /\ call.ret[1] # <<>> =>
                  (call.ret[1][1] <=>
                      /\ Len(a) = Len(b)
                      /\ \A k \in 1 .. Len(a) : elem_eq(a[k], b[k]))
            /\ call.ret[2] # <<>> => call.ret[2][1] = Lex(a, b)
            /\ call.ret[3] # <<>> => call.ret[3][1] = Lex(a, b) /\ Lex(a, b) # "None"

\* two views of two elements with different bases and strides compare equal
C14_Witness ==
    /\ call.op = "compare"
    /\ len(call.self) = 2 /\ len(call.args[1]) = 2
    /\ call.self.stride # call.args[1].stride
    /\ call.self.data # call.args[1].data
    /\ call.ret = << <<TRUE>>, <<"Equal">>, <<"Equal">> >>

\* the addresses of the elements a view shows, in traversal order
Positions(s) == [j \in 1 .. len(s) |-> (s.data + (j - 1) * s.stride) % Word]

\* two views show the same elements with the same length and stride
SameView(a, b) == len(a) = len(b) /\ a.stride = b.stride /\ Positions(a) = Positions(b)

\* C15: substrides2 is substrides(2): on every view one fails exactly when the
\* other does, and the pair substrides2 returns has the lengths, the stride
\* and the visible elements of the two views substrides(2) yields; element j
\* of the left view is the receiver's element 2j and element j of the right
\* view is its element 2j + 1.
C15_Substrides2IsSubstridesOf2 ==
    /\ substrides2_ok(v) <=> substrides_ok(v, 2)
    /\ call.op = "substrides2" =>
          /\ call.ok <=> substrides_ok(call.self, 2)
          /\ call.ok =>
                LET rv == RemainingViews(substrides(call.self, 2))
                IN  /\ Len(rv) = 2 /\ Len(call.ret) = 2
                    /\ \A k \in 1 .. 2 :
                          /\ SameView(call.ret[k], rv[k])
                          /\ \A j \in 1 .. len(call.ret[k]) :
                                Positions(call.ret[k])[j] =
                                    Positions(call.self)[2 * (j - 1) + k]
    /\ sub # <<>> /\ subOf.n = 2 =>
          \A k \in 1 .. Len(produced) :
              SameView(produced[k], substrides2(subOf.self)[k])

\* substrides2 of a view of three elements: two on the left, one on the right
C15_Witness ==
    /\ call.op = "substrides2" /\ call.ok
    /\ len(call.self) = 3 /\ call.self.data # base
    /\ len(call.ret[1]) = 2 /\ len(call.ret[2]) = 1

\* the byte stride is a positive exact multiple of the element size
WellStrided(s) == s.stride > 0 /\ s.stride % es = 0 /\ stride(s) * es = s.stride

\* C16: every view obtained by construction, slice, slice_from, slice_to,
\* split_at, substrides2 and substrides calls that did not fail has a byte
\* stride that is a positive exact multiple of the element size, and stride()
\* reports it in elements: 1 for a view of a buffer, the receiver's stride
\* after slice, slice_from, slice_to and split_at, twice the receiver's after
\* substrides2, n times the receiver's for every view of substrides(n).
C16_StrideUnits ==
    /\ WellStrided(v)
    /\ call.op = "new" => stride(v) = 1 /\ call.ret = <<v>>
    /\ call.op \in {"slice", "slice_from", "slice_to", "split_at"} /\ call.ok =>
          /\ Len(call.ret) >= 1
          /\ \A k \in 1 .. Len(call.ret) :
                WellStrided(call.ret[k]) /\ stride(call.ret[k]) = stride(call.self)
    /\ call.op = "substrides2" /\ call.ok =>
          \A k \in 1 .. 2 :
              WellStrided(call.ret[k]) /\ stride(call.ret[k]) = 2 * stride(call.self)
    /\ sub # <<>> =>
          /\ WellStrided(subOf.self)
          /\ stride(sub[1].x) = subOf.n * stride(subOf.self)
          /\ \A k \in 1 .. Len(produced) :
                WellStrided(produced[k])
                /\ stride(produced[k]) = subOf.n * stride(subOf.self)

\* a view of stride 2 over two-byte elements, cut in three: stride 6
C16_Witness ==
    /\ es = 2
    /\ sub # <<>> /\ subOf.n = 3 /\ stride(subOf.self) = 2
    /\ Len(produced) = 3
    /\ produced[3].stride = 12

\* base + length * stride, in bytes, stays in the address space
NoWrap(s) == s.data + s.len * s.stride < Word

\* C17: every operation that constructs a view checks that base + length *
\* stride does not wrap and fails instead of producing the view: no view
\* that a construction, a slicing operation, substrides2 or a partitioner
\* handed out wraps.
C17_ConstructionChecksWrap ==
    /\ NoWrap(v)
    /\ call.op \in {"new", "slice", "slice_from", "slice_to", "split_at", "substrides2"} =>
          \A k \in 1 .. Len(call.ret) : NoWrap(call.ret[k])
    /\ \A k \in 1 .. Len(produced) : NoWrap(produced[k])

\* what the code checks: iter() fails exactly on the views that wrap
IterChecksWrap == call.op = "iter" => (call.ok <=> NoWrap(call.self))

Inside(s) == \A j \in 0 .. s.len - 1 : InBuf((s.data + j * s.stride) % Word)

\* C19: every position base + i*stride, i < len, of every view derived from
\* the view of the buffer lies in the buffer, and so does every element an
\* iterator is about to yield from either end.
C19_ElementsInBuffer ==
    /\ Inside(v)
    /\ \A k \in 1 .. Len(produced) : Inside(produced[k])
    /\ call.op \in {"slice", "slice_from", "slice_to", "split_at", "substrides2"} =>
          \A k \in 1 .. Len(call.ret) : Inside(call.ret[k])
    /\ it # <<>> /\ items_has_next(it[1]) =>
          /\ InBuf(it[1].start)
          /\ InBuf((it[1].end + Word - it[1].stride) % Word)

\* the positions are in the buffer unless the partitioner's length wrapped
ElementsInBufferUnlessWrapped == SubWrapped \/ C19_ElementsInBuffer

\* the pointer is in the buffer or at most one element past its last element
InOrOnePast(p) == p >= base /\ p <= base + BufLen * es

\* C20: the base of every derived view, empty ones included, the cursor of a
\* partitioner and both pointers of an element iterator stay in the buffer
\* or at most one element past its last element.
C20_PointersInBuffer ==
    /\ InOrOnePast(v.data)
    /\ call.op \in {"slice", "slice_from", "slice_to", "split_at", "substrides2"} =>
          \A k \in 1 .. Len(call.ret) : InOrOnePast(call.ret[k].data)
    /\ \A k \in 1 .. Len(produced) : InOrOnePast(produced[k].data)
    /\ sub # <<>> => InOrOnePast(sub[1].x.data)
    /\ it # <<>> => InOrOnePast(it[1].start) /\ InOrOnePast(it[1].end)

\* the end pointer of an iterator over a strided view, past the buffer
EndPastBuffer ==
    /\ it # <<>> /\ call.op = "iter"
    /\ itOf = [data |-> base, len |-> 2, stride |-> 2 * es]
    /\ BufLen = 3
    /\ it[1].end = base + 4 * es

\* C21: a substrides(n) that does not fail has computed long_length =
\* ceil(L/n) from a sum L + n - 1 that did not wrap, and the partitioner's
\* template length never goes below zero: no view it holds or has produced is
\* longer than L.
C21_LongLengthExact ==
    /\ call.op = "substrides" /\ call.ok =>
          sub[1].x.len = CeilDiv(len(call.self), call.args[1])
    /\ sub # <<>> =>
          LET L == subOf.self.len
              n == subOf.n
          IN  /\ L + n - 1 < Word
              /\ sub[1].x.len <= L
              /\ \A k \in 1 .. Len(produced) : produced[k].len <= L

\* a build with overflow checks fails in substrides instead of wrapping
LongLengthExactWhenChecked == checked => C21_LongLengthExact

\* the template length wrapped below zero and was handed out
TemplateLengthWrapped ==
    /\ ~checked
    /\ sub # <<>> /\ subOf.self.len = 2 /\ subOf.n = Word - 1
    /\ Len(produced) = 3
    /\ produced[3].len = Word - 1

\* the buffer element a pointer addresses
ElemIndex(ptr) == ((ptr - base) \div es) + 1

WriteOps == {"get_mut", "index_mut", "deref_mut"}

\* C22: only a write changes the buffer.  A write through an exclusive view
\* at index i < len (get_mut, indexed mutation, a reference of the mutable
\* iterator) changes exactly the buffer element at base + i*stride, every
\* other element keeps its value, and every view addressing that element
\* then reads the new value; at i >= len nothing is written.  Every other
\* call (get, reborrow, slicing, split_at, substrides2, iteration) leaves
\* every element unchanged.
C22_WriteFrame ==
    /\ call'.op \notin WriteOps => mem' = mem
    /\ call'.op \in WriteOps =>
          LET s == call'.self
              i == call'.args[1]
              val == call'.args[2]
              at == ElemIndex(s.data + i * s.stride)
          IN  IF i < s.len
              THEN /\ call'.ok
                   /\ at \in DOMAIN mem
                   /\ mem' = [k \in DOMAIN mem |-> IF k = at THEN val ELSE mem[k]]
                   /\ \A h \in Slots :
                         handles'[h].kind \in {"stride", "ref"} =>
                             \A j \in 0 .. len(handles'[h].view) - 1 :
                                 LET p == handles'[h].view.data + j * handles'[h].view.stride
                                 IN  ElemIndex(p) = at => mem'[ElemIndex(p)] = val
              ELSE /\ mem' = mem
                   /\ call'.op = "index_mut" => ~call'.ok /\ handles' = Aborted
    /\ UNCHANGED <<base, es>>

C22_Frame == [][C22_WriteFrame]_vars

\* element 1 of a stride-2 view was written through a temporary alias: the
\* buffer's element 2 holds the value, the others are as they were, and the
\* lender addresses the element too
C22_Witness ==
    /\ call.op = "get_mut" /\ call.args = <<1, 0>>
    /\ call.self = [data |-> base, len |-> 2, stride |-> 2 * es]
    /\ mem = <<1, 2, 0>>
    /\ \E h \in Slots : Lent(h) /\ handles[h].view = call.self

\* the programs that make no write leave the buffer as it was built
BufferUntouched == mem = [i \in 1 .. BufLen |-> i]
====
